---- MODULE Spec2Model ----
(***************************************************************************)
(* A model of the service-lifecycle supervisor of spruce-ldap:             *)
(* ServiceImpl (src/spruce/ldap/_services.py) and OpenLdapService          *)
(* (src/spruce/ldap/openldap/_services.py).                                *)
(*                                                                         *)
(* One ServiceImpl instance is driven by one caller.  The operating        *)
(* system's process table, the daemon's output pipe and its pid-file are   *)
(* the environment; the daemon is an opaque executable that may print,     *)
(* write its pid-file, detach (double-fork) or exit at any moment.         *)
(*                                                                         *)
(* Spec and LiveSpec drive an instance made by its constructor, up to its  *)
(* teardown (__del__).  CbSpec follows one call of create_basic:           *)
(* create_minimal and create_from_configfile, the start of the daemon, the *)
(* directory bootstrap and the cleanup stop.                               *)
(***************************************************************************)
EXTENDS Integers, Sequences, FiniteSets, TLC

\* ----------------------------------------------------------------- bounds
\* Process ids the operating system hands out (never reused in a run).
MaxPid == 3
\* Lines the daemon of one launch prints on its combined stdout/stderr.
MaxOut == 2

\* -------------------------------------------------------------- constants
NoPid == 0
PIDs == 1..MaxPid
NoCode == -1
ExitCodes == {1}
Lines == {"bdb_db_open", "slapd starting"}
NoProc == [pid |-> NoPid, returncode |-> NoCode]
\* how a call ended: what it returned or raised, and (history) the status its
\* guard saw, the pid it sent SIGTERM to, the pid it handed to _set_status,
\* the stop_on_del flag a teardown found, the exception that ended the
\* finalizer and the number of stops that have returned normally so far
NoResult == [op |-> "none", outcome |-> "none", value |-> NoPid,
             read |-> "none", code |-> NoCode, output |-> << >>,
             entry |-> "none", signal |-> NoPid, resolved |-> NoPid,
             flag |-> FALSE, ignored |-> "none", stops |-> 0]

VARIABLES
    status,           \* self._status
    pid,              \* self._pid (NoPid models None)
    slapd_proc,       \* self._slapd_proc: the Popen object (NoProc: attribute unset)
    pidfilepath,      \* whether cn=config.ldif holds an olcPidFile line
    pc,               \* the caller's position inside start / stop
    slapd_output,     \* _start's local slapd_output (lines read so far)
    slapd_started,    \* _start's local slapd_started
    result,           \* how the last call of the public interface ended
    procs,            \* the OS process table
    daemon,           \* pid of the daemon process of the latest launch
    pipe,             \* lines written to the pipe and not read yet
    stdoutClosed,     \* slapd_proc.stdout.close() was called
    pidfile,          \* the pid-file on disk
    emitted,          \* every line the daemon printed during this startup (history)
    sleeps,           \* _sleep calls made since the marker was read (history)
    cb,               \* create_basic: its position, arguments and locals
    configfile,       \* the temporary slapd.conf that create_minimal writes
    ldapOps           \* the directory operations create_basic performed, in order

\* the variables of a call of create_basic
cbVars == <<cb, configfile, ldapOps>>

vars == <<status, pid, slapd_proc, pidfilepath, pc, slapd_output, slapd_started,
          result, procs, daemon, pipe, stdoutClosed, pidfile, emitted, sleeps,
          cb, configfile, ldapOps>>

supervisorVars == <<status, pid, slapd_proc, pidfilepath, pc, slapd_output,
                    slapd_started, result, stdoutClosed, sleeps, cb, configfile,
                    ldapOps>>

\* ------------------------------------------------------------ text helpers
Digit == <<"0", "1", "2", "3", "4", "5", "6", "7", "8", "9">>
Whitespace == {" ", "\n"}

RECURSIVE Decimal(_)
\* str(n) for n >= 0, as the daemon prints its pid
Decimal(n) ==
    IF n < 10 THEN <<Digit[n + 1]>>
    ELSE Decimal(n \div 10) \o <<Digit[(n % 10) + 1]>>

\* the text the daemon writes into its pid-file
PidText(p) == Decimal(p) \o <<"\n">>

RECURSIVE LStrip(_)
LStrip(s) ==
    IF s # << >> /\ Head(s) \in Whitespace THEN LStrip(Tail(s)) ELSE s

RECURSIVE RStrip(_)
RStrip(s) ==
    IF s # << >> /\ s[Len(s)] \in Whitespace
    THEN RStrip(SubSeq(s, 1, Len(s) - 1)) ELSE s

\* str.strip()
Strip(s) == LStrip(RStrip(s))

DigitValue(c) == CHOOSE d \in 0..9 : Digit[d + 1] = c

IsDigits(s) == s # << >> /\ \A i \in 1..Len(s) : \E d \in 0..9 : Digit[d + 1] = s[i]

RECURSIVE IntOf(_)
\* int(s) of a string of decimal digits
IntOf(s) ==
    IF Len(s) = 1 THEN DigitValue(s[1])
    ELSE 10 * IntOf(SubSeq(s, 1, Len(s) - 1)) + DigitValue(s[Len(s)])

\* 'slapd starting' in line
HasMarker(line) == line = "slapd starting"

\* ------------------------------------------------------- the process table
NoProcess == [state |-> "unused", child |-> FALSE, code |-> NoCode]

\* a liveness test that finds every pid
PidExistsAlways(pr, p) == TRUE

\* psutil.pid_exists(p)
PidExists(pr, p) == p \in DOMAIN pr /\ pr[p].state \in {"alive", "zombie"}

\* the pid the next fork gets
FreePids(pr) == {p \in PIDs : pr[p].state = "unused"}
NextPid(pr) == CHOOSE p \in FreePids(pr) : \A q \in FreePids(pr) : p <= q

\* a successful waitpid: the zombie leaves the process table
Reaped(pr, p) == [pr EXCEPT ![p].state = "dead"]

\* ------------------------------------------------------------ _set_status
\* _set_status clearing the pid whatever the status
SetFieldsClearsPid(st, p) == [status |-> st, pid |-> NoPid]

\* the two assignments of _set_status, without the trailing probe
SetFields(st, p) ==
    [status |-> st, pid |-> IF st = "running" THEN p ELSE NoPid]

\* _probe_status, as a function of the instance and the process table
ProbeStatus(st, p, pr) ==
    IF st = "running"
    THEN IF PidExists(pr, p)
         THEN IF pr[p].state = "zombie"
              THEN IF pr[p].child
                   THEN SetFields("gone", NoPid)
                          @@ [procs |-> Reaped(pr, p), raised |-> "none"]
                   \* os.waitpid on a process that is no child: ECHILD
                   ELSE [status |-> st, pid |-> p, procs |-> pr, raised |-> "OSError"]
              ELSE [status |-> st, pid |-> p, procs |-> pr, raised |-> "none"]
         ELSE SetFields("gone", NoPid) @@ [procs |-> pr, raised |-> "none"]
    ELSE [status |-> st, pid |-> p, procs |-> pr, raised |-> "none"]

\* _set_status(st, pid=p): the assignments, then the probe when a pid was set
SetStatus(st, p, pr) ==
    LET f == SetFields(st, p)
    IN  IF f.pid # NoPid
        THEN ProbeStatus(f.status, f.pid, pr)
        ELSE f @@ [procs |-> pr, raised |-> "none"]

\* ------------------------------------------------------------------- Init
\* create_basic when it is not running: no arguments, no locals.  History:
\* written (the configuration file was written), checked and tool (slaptest
\* ran, its exit code and output), at (where the exception was raised), boot
\* (the exception that left the try block).
NoCb == [pc |-> "none", suffix |-> << >>, schemas |-> << >>, pidfile |-> << >>,
         configpw |-> << >>, configarg |-> << >>, rootarg |-> << >>,
         rootpw |-> << >>, boot |-> "none", err |-> "none", code |-> NoCode,
         output |-> << >>, step |-> 0, written |-> FALSE, checked |-> FALSE,
         instance |-> FALSE, at |-> "none", dbtype |-> "none",
         tool |-> [code |-> NoCode, out |-> << >>]]
NoFile == [exists |-> FALSE, text |-> << >>]

\* ServiceImpl.__init__: pid=None gives stopped; pid=p attaches to a daemon
\* that some other process launched.
New(attach) ==
    /\    LET pr0 == [p \in PIDs |->
                        IF attach /\ p = 1
                        THEN [state |-> "alive", child |-> FALSE, code |-> NoCode]
                        ELSE NoProcess]
              s == IF attach THEN SetStatus("running", 1, pr0)
                   ELSE SetStatus("stopped", NoPid, pr0)
          IN  /\ status = s.status
              /\ pid = s.pid
              /\ procs = s.procs
    /\ slapd_proc = NoProc
    /\ pc = "idle"
    /\ slapd_output = << >>
    /\ slapd_started = FALSE
    /\ result = NoResult
    /\ daemon = NoPid
    /\ pipe = << >>
    /\ stdoutClosed = FALSE
    /\ pidfile = [exists |-> FALSE, text |-> << >>]
    /\ emitted = << >>
    /\ sleeps = 0

\* an instance made by its constructor, on a configuration directory that
\* may or may not name a pid-file; no create_basic is involved
Init ==
    /\ \E attach \in BOOLEAN : New(attach)
    /\ pidfilepath \in BOOLEAN
    /\ cb = NoCb
    /\ configfile = NoFile
    /\ ldapOps = << >>

\* how a call of the public interface ended
Ended(op, outcome) ==
    [NoResult EXCEPT !.op = op, !.outcome = outcome, !.stops = result.stops]

\* ------------------------------------------------------------------ start
InStart == pc \in {"start_poll", "start_fail_read", "start_read",
                   "start_readline", "start_sleep", "start_resolve"}

\* start(): the guard reads self.status, which probes first
StartGuard == ProbeStatus(status, pid, procs)

\* start() when the probe of the guard raises
StartProbeError ==
    /\ pc = "idle"
    /\ StartGuard.raised # "none"
    /\ result' = Ended("start", StartGuard.raised)
    /\ UNCHANGED <<status, pid, slapd_proc, pidfilepath, pc, slapd_output,
                   slapd_started, procs, daemon, pipe, stdoutClosed, pidfile,
                   emitted, sleeps>>
    /\ UNCHANGED cbVars

\* a start guard that lets every status through
StartRefusesNothing(st) == FALSE

\* the test of start's guard on the probed status
StartRefuses(st) == st = "running"

\* start() when the service is already running: InvalidServiceOperation
StartRejected ==
    /\ pc = "idle"
    /\ StartGuard.raised = "none"
    /\ StartRefuses(StartGuard.status)
    /\ status' = StartGuard.status
    /\ pid' = StartGuard.pid
    /\ procs' = StartGuard.procs
    /\ result' = Ended("start", "InvalidServiceOperation")
    /\ UNCHANGED <<slapd_proc, pidfilepath, pc, slapd_output, slapd_started,
                   daemon, pipe, stdoutClosed, pidfile, emitted, sleeps>>
    /\ UNCHANGED cbVars

\* start(fork=True) past the guard: _start scans cn=config.ldif and launches
\* slapd with subprocess.Popen, stdout and stderr on one pipe
Launch ==
    /\ pc = "idle"
    /\ StartGuard.raised = "none"
    /\ ~StartRefuses(StartGuard.status)
    /\ FreePids(StartGuard.procs) # {}
    /\ LET c == NextPid(StartGuard.procs)
       IN  /\ procs' = [StartGuard.procs EXCEPT
                          ![c] = [state |-> "alive", child |-> TRUE, code |-> NoCode]]
           /\ slapd_proc' = [pid |-> c, returncode |-> NoCode]
           /\ daemon' = c
    /\ status' = StartGuard.status
    /\ pid' = StartGuard.pid
    /\ slapd_output' = << >>
    /\ slapd_started' = FALSE
    /\ pipe' = << >>
    /\ emitted' = << >>
    /\ stdoutClosed' = FALSE
    /\ sleeps' = 0
    /\ result' = [Ended("start", "pending") EXCEPT !.entry = StartGuard.status]
    /\ pc' = "start_poll"
    /\ UNCHANGED <<pidfilepath, pidfile>>

\* start(fork=True) past the guard, called by the owner of the instance
StartLaunch ==
    /\ Launch
    /\ UNCHANGED cbVars

\* start(fork=False) past the guard: os.execvp replaces the calling process by
\* slapd, so nothing of the caller runs again
StartExec ==
    /\ pc = "idle"
    /\ StartGuard.raised = "none"
    /\ ~StartRefuses(StartGuard.status)
    /\ status' = StartGuard.status
    /\ pid' = StartGuard.pid
    /\ procs' = StartGuard.procs
    /\ result' = Ended("start", "exec")
    /\ pc' = "exec"
    /\ UNCHANGED <<slapd_proc, pidfilepath, slapd_output, slapd_started, daemon,
                   pipe, stdoutClosed, pidfile, emitted,
                   sleeps>>
    /\ UNCHANGED cbVars

\* Popen.poll(): a non-blocking waitpid on the launched child; an exited child
\* is reaped and its exit code kept in returncode
Polled(sp, pr) ==
    IF sp.returncode # NoCode THEN [proc |-> sp, procs |-> pr]
    ELSE IF pr[sp.pid].state = "zombie"
         THEN [proc |-> [sp EXCEPT !.returncode = pr[sp.pid].code],
               procs |-> Reaped(pr, sp.pid)]
    ELSE IF pr[sp.pid].state = "dead"
         \* waitpid fails with ECHILD: Popen records exit code 0
         THEN [proc |-> [sp EXCEPT !.returncode = 0], procs |-> pr]
    ELSE [proc |-> sp, procs |-> pr]

\* a readiness loop that never tests the child's returncode
StartNeverGivesUp(sp) == FALSE

\* whether the readiness loop gives up after a poll
StartGivesUp(sp) == sp.returncode # NoCode

\* top of the readiness loop: slapd_proc.poll() and the returncode test
StartPoll ==
    /\ pc = "start_poll"
    /\ LET r == Polled(slapd_proc, procs)
       IN  /\ slapd_proc' = r.proc
           /\ procs' = r.procs
           /\ pc' = IF StartGivesUp(r.proc) THEN "start_fail_read" ELSE "start_read"
    /\ UNCHANGED <<status, pid, pidfilepath, slapd_output, slapd_started, result,
                   daemon, pipe, stdoutClosed, pidfile, emitted, sleeps>>
    /\ UNCHANGED cbVars

\* the read end of the pipe is at end-of-file once no writer is left
PipeEof == pipe = << >> /\ procs[daemon].state # "alive"

\* a failure report without the trailing stdout.read()
FailureOutputCapturedOnly(captured, rest) == captured

\* the text the RuntimeError of a failed startup carries
FailureOutput(captured, rest) == captured \o rest

\* the child exited before the marker: slapd_output += stdout.read() (which
\* returns at end-of-file), then RuntimeError with exit code and output
StartFailRead ==
    /\ pc = "start_fail_read"
    /\ procs[daemon].state # "alive"
    /\ result' = [result EXCEPT
                    !.outcome = "RuntimeError",
                    !.code = slapd_proc.returncode,
                    !.output = FailureOutput(slapd_output, pipe)]
    /\ pipe' = << >>
    /\ slapd_output' = << >>
    /\ pc' = "idle"
    /\ UNCHANGED <<status, pid, slapd_proc, pidfilepath, slapd_started, procs,
                   daemon, stdoutClosed, pidfile, emitted,
                   sleeps>>
    /\ UNCHANGED cbVars

\* inner loop test fails: the poll period is over
StartPeriodElapsed ==
    /\ pc = "start_read"
    /\ pc' = "start_sleep"
    /\ UNCHANGED <<status, pid, slapd_proc, pidfilepath, slapd_output,
                   slapd_started, result, procs, daemon, pipe, stdoutClosed,
                   pidfile, emitted, sleeps>>
    /\ UNCHANGED cbVars

\* inner loop test holds: the caller enters the blocking readline
StartReadlineCall ==
    /\ pc = "start_read"
    /\ pc' = "start_readline"
    /\ UNCHANGED <<status, pid, slapd_proc, pidfilepath, slapd_output,
                   slapd_started, result, procs, daemon, pipe, stdoutClosed,
                   pidfile, emitted, sleeps>>
    /\ UNCHANGED cbVars

\* readline returns: a line, or '' at end-of-file; the marker ends the loop
\* and closes the read handle
StartReadline ==
    /\ pc = "start_readline"
    /\ \/ /\ pipe # << >>
          /\ slapd_output' = Append(slapd_output, Head(pipe))
          /\ IF HasMarker(Head(pipe))
             THEN /\ slapd_started' = TRUE
                  /\ stdoutClosed' = TRUE
                  /\ pipe' = << >>
                  /\ pc' = "start_sleep"
             ELSE /\ pipe' = Tail(pipe)
                  /\ pc' = "start_read"
                  /\ UNCHANGED <<slapd_started, stdoutClosed>>
       \/ /\ PipeEof
          /\ pc' = "start_read"
          /\ UNCHANGED <<slapd_output, slapd_started, stdoutClosed, pipe>>
    /\ UNCHANGED <<status, pid, slapd_proc, pidfilepath, result, procs, daemon,
                   pidfile, emitted, sleeps>>
    /\ UNCHANGED cbVars

\* a readiness loop that ends after its first period
AfterSleepLeaves(started) == "start_resolve"

\* where the readiness loop goes after its _sleep
AfterSleep(started) == IF started THEN "start_resolve" ELSE "start_poll"

\* _sleep(_START_POLL_PERIOD) at the bottom of the readiness loop
StartSleep ==
    /\ pc = "start_sleep"
    /\ sleeps' = IF slapd_started THEN sleeps + 1 ELSE sleeps
    /\ pc' = AfterSleep(slapd_started)
    /\ UNCHANGED <<status, pid, slapd_proc, pidfilepath, slapd_output,
                   slapd_started, result, procs, daemon, pipe, stdoutClosed,
                   pidfile, emitted>>
    /\ UNCHANGED cbVars

\* a pid resolution that never consults the pid-file
ResolvedPidChildAlways(hasPath, file, sp) == sp.pid

\* the pid _start hands to _set_status: the pid-file's content when the
\* config names a pid-file, the launched child's pid otherwise
ResolvedPid(hasPath, file, sp) ==
    IF hasPath THEN IntOf(Strip(file.text)) ELSE sp.pid

\* what start() hands back to its caller: it drops _start's value
StartReturn(p) == NoPid

\* pid resolution and _set_status('running', pid=pid); start then returns
StartResolve ==
    /\ pc = "start_resolve"
    /\ IF pidfilepath /\ ~pidfile.exists
       THEN /\ result' = [result EXCEPT !.outcome = "IOError"]
            /\ UNCHANGED <<status, pid, procs>>
       ELSE IF pidfilepath /\ ~IsDigits(Strip(pidfile.text))
       THEN /\ result' = [result EXCEPT !.outcome = "ValueError"]
            /\ UNCHANGED <<status, pid, procs>>
       ELSE LET p == ResolvedPid(pidfilepath, pidfile, slapd_proc)
                s == SetStatus("running", p, procs)
            IN  /\ status' = s.status
                /\ pid' = s.pid
                /\ procs' = s.procs
                /\ result' = [result EXCEPT
                                !.outcome = IF s.raised # "none" THEN s.raised ELSE "ok",
                                !.value = IF s.raised # "none" THEN NoPid
                                          ELSE StartReturn(s.pid),
                                !.resolved = p]
    /\ slapd_output' = << >>
    /\ slapd_started' = FALSE
    /\ emitted' = << >>
    /\ sleeps' = 0
    /\ pc' = "idle"
    /\ UNCHANGED <<slapd_proc, pidfilepath, daemon, pipe, stdoutClosed, pidfile>>
    /\ UNCHANGED cbVars

\* ----------------------------------------------------------------- status
\* a read of the status property: probe, then return self._status
ReadStatus ==
    /\ pc = "idle"
    /\ LET s == ProbeStatus(status, pid, procs)
       IN  /\ status' = s.status
           /\ pid' = s.pid
           /\ procs' = s.procs
           /\ result' = IF s.raised # "none" THEN Ended("status", s.raised)
                        ELSE [Ended("status", "ok") EXCEPT !.read = s.status]
    /\ UNCHANGED <<slapd_proc, pidfilepath, pc, slapd_output, slapd_started,
                   daemon, pipe, stdoutClosed, pidfile, emitted, sleeps>>

\* a read of the status property by the owner of the instance
StatusRead ==
    /\ ReadStatus
    /\ UNCHANGED cbVars

\* ------------------------------------------------------------------- stop
InStop == pc \in {"stop_kill", "stop_poll", "stop_wait"}

\* a stop guard that compares with gone only
StopRefusesGoneOnly(st) == st = "gone"

\* a stop guard that compares with stopped only
StopRefusesStoppedOnly(st) == st = "stopped"

\* the test of stop's guard on the probed status
StopRefuses(st) == st # "running"

\* an exception that reaches the caller from every call, the finalizer included
RaiseAlways(res, exc) == [res EXCEPT !.outcome = exc]

\* An exception that leaves a call reaches the caller, except in __del__:
\* the interpreter runs __del__ as a finalizer, and an exception that leaves a
\* finalizer is reported on stderr and ignored.
Raise(res, exc) ==
    IF res.op = "del"
    THEN [res EXCEPT !.outcome = "ok", !.ignored = exc]
    ELSE [res EXCEPT !.outcome = exc]

\* where the caller is once the call has ended: after __del__ the instance
\* is no more
AfterCall(res) == IF res.op = "del" THEN "deleted" ELSE "idle"

\* the first statement of stop(), for the call res: the guard reads
\* self.status (probing first); a service that is not running is refused
\* with InvalidServiceOperation
StopEnter(res) ==
    /\ LET s == ProbeStatus(status, pid, procs)
       IN  IF s.raised # "none"
           THEN /\ result' = Raise(res, s.raised)
                /\ pc' = AfterCall(res)
                /\ UNCHANGED <<status, pid, procs>>
           ELSE /\ status' = s.status
                /\ pid' = s.pid
                /\ procs' = s.procs
                /\ IF StopRefuses(s.status)
                   THEN /\ result' = Raise([res EXCEPT !.entry = s.status],
                                           "InvalidServiceOperation")
                        /\ pc' = AfterCall(res)
                   ELSE /\ result' = [res EXCEPT !.entry = s.status]
                        /\ pc' = "stop_kill"
    /\ UNCHANGED <<slapd_proc, pidfilepath, slapd_output, slapd_started, daemon,
                   pipe, stdoutClosed, pidfile, emitted,
                   sleeps>>

\* a call of stop()
StopCall ==
    /\ pc = "idle"
    /\ StopEnter(Ended("stop", "pending"))
    /\ UNCHANGED cbVars

\* os.kill(self.pid, SIGTERM): ESRCH when no such process is left, which
\* sets gone and raises InvalidServiceOperation
StopKill ==
    /\ pc = "stop_kill"
    /\ IF PidExists(procs, pid)
       THEN /\ result' = [result EXCEPT !.signal = pid]
            /\ pc' = "stop_poll"
            /\ UNCHANGED <<status, pid, procs>>
       ELSE LET s == SetStatus("gone", NoPid, procs)
            IN  /\ status' = s.status
                /\ pid' = s.pid
                /\ procs' = s.procs
                /\ result' = Raise(result, "InvalidServiceOperation")
                /\ pc' = AfterCall(result)
    /\ UNCHANGED <<slapd_proc, pidfilepath, slapd_output, slapd_started, daemon,
                   pipe, stdoutClosed, pidfile, emitted, sleeps>>
    /\ UNCHANGED cbVars

\* self._slapd_proc.poll() after the signal: AttributeError on an instance
\* that never launched a daemon itself
StopPoll ==
    /\ pc = "stop_poll"
    /\ IF slapd_proc = NoProc
       THEN /\ result' = Raise(result, "AttributeError")
            /\ pc' = AfterCall(result)
            /\ UNCHANGED <<slapd_proc, procs>>
       ELSE LET r == Polled(slapd_proc, procs)
            IN  /\ slapd_proc' = r.proc
                /\ procs' = r.procs
                /\ pc' = "stop_wait"
                /\ UNCHANGED result
    /\ UNCHANGED <<status, pid, pidfilepath, slapd_output, slapd_started, daemon,
                   pipe, stdoutClosed, pidfile, emitted,
                   sleeps>>
    /\ UNCHANGED cbVars

\* what os.waitpid(p, 0) does: "reap" an exited child, "block" on a live
\* child, ECHILD for anything that is not a waitable child of the caller
WaitPid(pr, p) ==
    IF pr[p].child /\ pr[p].state = "zombie" THEN "reap"
    ELSE IF pr[p].child /\ pr[p].state = "alive" THEN "block"
    ELSE "ECHILD"

\* os.waitpid(self.pid, 0), then _set_status('stopped')
StopWait ==
    /\ pc = "stop_wait"
    /\ WaitPid(procs, pid) # "block"
    /\ IF WaitPid(procs, pid) = "reap"
       THEN LET s == SetStatus("stopped", NoPid, Reaped(procs, pid))
            IN  /\ status' = s.status
                /\ pid' = s.pid
                /\ procs' = s.procs
                /\ result' = [result EXCEPT !.outcome = "ok", !.stops = @ + 1]
       ELSE /\ result' = Raise(result, "OSError")
            /\ UNCHANGED <<status, pid, procs>>
    /\ pc' = AfterCall(result)
    /\ UNCHANGED <<slapd_proc, pidfilepath, slapd_output, slapd_started, daemon,
                   pipe, stdoutClosed, pidfile, emitted,
                   sleeps>>
    /\ UNCHANGED cbVars

\* --------------------------------------------------------------- teardown
\* the test of __del__: self.stop_on_del and self.status == 'running'
DelStops(flag, st) == flag /\ st = "running"

\* __del__ up to its test; stop_on_del is what the constructor or the setter
\* left.  `and' reads self.status, and so probes, only when the flag is set;
\* the try around the test catches AttributeError only.
DelCall(flag) ==
    /\ pc = "idle"
    /\ LET res == [Ended("del", "pending") EXCEPT !.flag = flag]
           s == IF flag THEN ProbeStatus(status, pid, procs)
                ELSE [status |-> status, pid |-> pid, procs |-> procs,
                      raised |-> "none"]
       IN  IF s.raised # "none"
           THEN /\ result' = Raise(res, s.raised)
                /\ pc' = AfterCall(res)
                /\ UNCHANGED <<status, pid, procs>>
           ELSE /\ status' = s.status
                /\ pid' = s.pid
                /\ procs' = s.procs
                /\ IF DelStops(flag, s.status)
                   THEN /\ result' = [res EXCEPT !.read = s.status]
                        /\ pc' = "del_stop"
                   ELSE /\ result' = [res EXCEPT !.outcome = "ok"]
                        /\ pc' = AfterCall(res)
    /\ UNCHANGED <<slapd_proc, pidfilepath, slapd_output, slapd_started, daemon,
                   pipe, stdoutClosed, pidfile, emitted, sleeps>>
    /\ UNCHANGED cbVars

\* __del__: if stop: self.stop(), outside the try
DelStop ==
    /\ pc = "del_stop"
    /\ StopEnter(result)
    /\ UNCHANGED cbVars

\* ------------------------------------------------------------ environment
\* the daemon prints a line on its stdout/stderr
DaemonEmit(line) ==
    /\ daemon # NoPid
    /\ procs[daemon].state = "alive"
    /\ ~stdoutClosed
    /\ InStart
    /\ Len(emitted) < MaxOut
    /\ emitted' = Append(emitted, line)
    /\ pipe' = Append(pipe, line)
    /\ UNCHANGED <<procs, daemon, pidfile>>
    /\ UNCHANGED supervisorVars

\* the daemon writes its pid into the configured pid-file
DaemonWritePidfile ==
    /\ daemon # NoPid
    /\ procs[daemon].state = "alive"
    /\ pidfilepath
    /\ pidfile # [exists |-> TRUE, text |-> PidText(daemon)]
    /\ pidfile' = [exists |-> TRUE, text |-> PidText(daemon)]
    /\ UNCHANGED <<procs, daemon, pipe, emitted>>
    /\ UNCHANGED supervisorVars

\* the launched child double-forks: the daemon proper continues under a new
\* pid that is no child of the caller, and the launched child exits
DaemonDetach ==
    /\ InStart
    /\ daemon = slapd_proc.pid
    /\ procs[daemon].state = "alive"
    /\ FreePids(procs) # {}
    /\ LET g == NextPid(procs)
       IN  /\ procs' = [procs EXCEPT
                          ![daemon] = [@ EXCEPT !.state = "zombie", !.code = 0],
                          ![g] = [state |-> "alive", child |-> FALSE, code |-> NoCode]]
           /\ daemon' = g
    /\ UNCHANGED <<pipe, pidfile, emitted>>
    /\ UNCHANGED supervisorVars

\* a process exits: on its own, on SIGTERM, or killed out-of-band
ProcExit(p, code) ==
    /\ procs[p].state = "alive"
    /\ procs' = [procs EXCEPT ![p] = [@ EXCEPT !.state = "zombie", !.code = code]]
    /\ UNCHANGED <<daemon, pipe, pidfile, emitted>>
    /\ UNCHANGED supervisorVars

\* the parent of a process that is no child of the caller reaps it
ExternalReap(p) ==
    /\ procs[p].state = "zombie"
    /\ ~procs[p].child
    /\ procs' = Reaped(procs, p)
    /\ UNCHANGED <<daemon, pipe, pidfile, emitted>>
    /\ UNCHANGED supervisorVars

\* ------------------------------------------------------------------- Next
SupervisorStep ==
    \/ StartPoll
    \/ StartFailRead
    \/ StartPeriodElapsed
    \/ StartReadlineCall
    \/ StartReadline
    \/ StartSleep
    \/ StartResolve
    \/ StopKill
    \/ StopPoll
    \/ StopWait
    \/ DelStop

Call ==
    \/ StartProbeError
    \/ StartRejected
    \/ StartLaunch
    \/ StartExec
    \/ StatusRead
    \/ StopCall
    \/ \E flag \in BOOLEAN : DelCall(flag)

Environment ==
    \/ \E line \in Lines : DaemonEmit(line)
    \/ DaemonWritePidfile
    \/ DaemonDetach
    \/ \E p \in PIDs, code \in ExitCodes : ProcExit(p, code)
    \/ \E p \in PIDs : ExternalReap(p)

Next == Call \/ SupervisorStep \/ Environment

Spec == Init /\ [][Next]_vars

\* The caller is one sequential program: a step of start or stop that can run
\* does run, and since time passes the poll period of the inner loop ends.
\* Nothing is assumed of the daemon or of when the interface is called.
LiveSpec ==
    /\ Spec
    /\ WF_vars(StartPoll)
    /\ WF_vars(StartFailRead)
    /\ WF_vars(StartPeriodElapsed \/ StartReadlineCall)
    /\ SF_vars(StartPeriodElapsed)
    /\ WF_vars(StartReadline)
    /\ WF_vars(StartSleep)
    /\ WF_vars(StartResolve)
    /\ WF_vars(StopKill)
    /\ WF_vars(StopPoll)
    /\ WF_vars(StopWait)
    /\ WF_vars(DelStop)

\* ----------------------------------------------- create_basic: arguments
\* Organizational-unit RDNs in front of the organization's DN.
MaxUnits == 2
\* Schema files a configuration includes.
MaxSchemas == 2

\* the variables of the instance and of its environment
instanceVars == <<status, pid, slapd_proc, pidfilepath, pc, slapd_output,
                  slapd_started, result, procs, daemon, pipe, stdoutClosed,
                  pidfile, emitted, sleeps>>

\* A DN is the list of its RDNs, which is what suffix.split(',') yields and
\* what ','.join rebuilds; an RDN is "attr=val".
Rdn(a, v) == [attr |-> a, val |-> v]
UnitNames == <<"eng", "dev", "ops", "lab">>

RECURSIVE Units(_)
\* ou_k,...,ou_1
Units(k) == IF k = 0 THEN << >> ELSE <<Rdn("ou", UnitNames[k])>> \o Units(k - 1)

\* the suffixes create_basic is called with
Suffixes ==
    {Units(k) \o <<Rdn("dc", "example"), Rdn("dc", "net")>> : k \in 0..MaxUnits}
      \cup {<<Rdn("dc", "example")>>,
            <<Rdn("o", "example"), Rdn("dc", "net")>>,
            <<Rdn("dc", "example"), Rdn("c", "us")>>,
            <<Rdn("ou", "eng"), Rdn("o", "example"), Rdn("c", "us")>>}

\* suffix_rdns[-2:] and suffix_rdns[:-2]
SuffixOrgDn(s) == SubSeq(s, Len(s) - 1, Len(s))
SuffixOrgunitsRdns(s) == SubSeq(s, 1, Len(s) - 2)

\* _SUFFIX_ORG_DN_RE: ^dc=(?P<org>[^,]*),dc=(?P<tld>[^,]*)$
SuffixOrgDnMatch(dn) == Len(dn) = 2 /\ dn[1].attr = "dc" /\ dn[2].attr = "dc"

\* a validation that accepts every suffix
SuffixRejectedNever(s) == FALSE

\* the suffixes create_basic raises ValueError for: the test runs only when
\* the suffix has more than one RDN
SuffixRejected(s) == Len(s) > 1 /\ ~SuffixOrgDnMatch(SuffixOrgDn(s))

\* A password is a list of text pieces; a scheme prefix is one piece.
SchemeTokens == {"{SSHA}", "{MD5}"}
Passwords == {<<"secret">>, <<"{MD5}", "c2VjcmV0">>, <<"{}", "secret">>}
Salts == {"salt1", "salt2"}

\* _PASSWORD_WITH_SCHEME_RE: ^\{(?P<scheme>\w+)\}(?P<value>.*)
PasswordWithScheme(pw) == pw # << >> /\ pw[1] \in SchemeTokens

\* the value written for a password: as given when it carries a scheme,
\* else '{SSHA}' + b64encode(sha1(pw + salt).digest() + salt)
ConfigValue(pw, salt) ==
    IF PasswordWithScheme(pw) THEN pw
    ELSE <<"{SSHA}", "sha1">> \o pw \o <<salt, salt>>

\* a root password written as given, whatever it is
RootConfigValueVerbatim(pw, salt) == pw

\* create_basic's own copy of the rule, for root_password (the value of
\* olcRootPW)
RootConfigValue(pw, salt) ==
    IF PasswordWithScheme(pw) THEN pw
    ELSE <<"{SSHA}", "sha1">> \o pw \o <<salt, salt>>

SchemaFiles == {"core.schema", "cosine.schema"}
SchemaLists == UNION {[1..n -> SchemaFiles] : n \in 0..MaxSchemas}

\* the pidfile argument (<< >>: not given) and the temporary name made under
\* /var/run when that directory is writable, else under the default directory
PidfileArgs == {<< >>, <<"/tmp/x.pid">>}
PidfileOf(arg, stdWritable) ==
    IF arg # << >> THEN arg
    ELSE IF stdWritable THEN <<"/var/run", "/slapd-", "tmp", ".pid">>
    ELSE <<"/tmp", "/slapd-", "tmp", ".pid">>

\* what create_minimal finds at configloc, and what it raises for it
ConfigLocs == {"writable dir", "absent", "cannot mkdir", "not a writable dir"}
ConfigDirError(loc) ==
    IF loc = "cannot mkdir" THEN "RuntimeError"
    ELSE IF loc = "not a writable dir" THEN "ValueError"
    ELSE "none"

\* one line "key arg\n" of the configuration file
Line(key, arg) == [key |-> key, arg |-> arg]

RECURSIVE Includes(_)
\* for schema in schemas: write('include {}\n')
Includes(schemas) ==
    IF schemas = << >> THEN << >>
    ELSE <<Line("include", <<Head(schemas)>>)>> \o Includes(Tail(schemas))

\* a rendering that writes the pidfile line first
RenderedPidfileFirst(schemas, pf, cv) ==
    <<Line("pidfile", pf)>> \o Includes(schemas)
      \o <<Line("database", <<"config">>), Line("rootpw", cv)>>

\* the text create_minimal writes into the temporary configuration file
Rendered(schemas, pf, cv) ==
    Includes(schemas)
      \o <<Line("pidfile", pf), Line("database", <<"config">>), Line("rootpw", cv)>>

\* slaptest -f configfile -F configdir: exit codes and combined output
SlaptestOutputs == {<<"config file testing succeeded">>,
                    <<"could not stat config file", "bad configuration file!">>}

\* a test of slaptest's exit code that never fails
SlaptestFailedNever(code) == FALSE

\* check_output raises CalledProcessError for a non-zero exit code
SlaptestFailed(code) == code # 0

\* spruce.pprint.indented: every line behind an indentation
Indented(text) == [i \in 1..Len(text) |-> <<"    ", text[i]>>]

\* slaptest writes olcPidFile into cn=config.ldif when the file names one
HasPidfileLine(text) == \E i \in 1..Len(text) : text[i].key = "pidfile"

\* ------------------------------------------------- create_basic: the steps
\* an exception leaves create_basic from where it is
Raised(c, exc) == [c EXCEPT !.pc = "raised", !.err = exc, !.at = c.pc]

\* create_basic, lines 32-51: split the suffix and, when it has more than one
\* RDN, match its last two against _SUFFIX_ORG_DN_RE; then the value of the
\* root password
CbValidate(pw, salt) ==
    /\ cb.pc = "entry"
    /\ cb' = IF SuffixRejected(cb.suffix)
             THEN Raised(cb, "ValueError")
             ELSE [cb EXCEPT !.pc = "minimal", !.rootarg = pw,
                             !.rootpw = RootConfigValue(pw, salt)]
    /\ UNCHANGED <<configfile, ldapOps>>
    /\ UNCHANGED instanceVars

\* create_minimal up to the written file: the configuration directory, the
\* config password's value, the pid-file name, the temporary file
CbMinimal(loc, schemas, arg, stdWritable, pw, salt) ==
    /\ cb.pc = "minimal"
    /\ IF ConfigDirError(loc) # "none"
       THEN /\ cb' = Raised(cb, ConfigDirError(loc))
            /\ UNCHANGED configfile
       ELSE LET pf == PidfileOf(arg, stdWritable)
                cv == ConfigValue(pw, salt)
            IN  /\ configfile' = [exists |-> TRUE,
                                  text |-> Rendered(schemas, pf, cv)]
                /\ cb' = [cb EXCEPT !.pc = "slaptest", !.schemas = schemas,
                                    !.pidfile = pf, !.configpw = cv,
                                    !.configarg = pw,
                                    !.written = TRUE]
    /\ UNCHANGED ldapOps
    /\ UNCHANGED instanceVars

\* create_from_configfile and the end of create_minimal: slaptest converts
\* the file; a non-zero exit code raises RuntimeError with the code and the
\* indented output, else the instance is constructed (stopped) and the
\* temporary file removed
CbSlaptest(code, out) ==
    /\ cb.pc = "slaptest"
    /\ IF SlaptestFailed(code)
       THEN /\ cb' = [Raised(cb, "RuntimeError") EXCEPT
                                !.code = code, !.output = Indented(out),
                                !.checked = TRUE,
                                !.tool = [code |-> code, out |-> out]]
            /\ UNCHANGED <<configfile, pidfilepath>>
       ELSE /\ cb' = [cb EXCEPT !.pc = "start", !.checked = TRUE,
                                !.tool = [code |-> code, out |-> << >>],
                                !.instance = TRUE, !.schemas = << >>,
                                !.pidfile = << >>, !.configpw = << >>,
                                !.configarg = << >>]
            /\ pidfilepath' = HasPidfileLine(configfile.text)
            /\ configfile' = NoFile
    /\ UNCHANGED ldapOps
    /\ UNCHANGED <<status, pid, slapd_proc, pc, slapd_output, slapd_started,
                   result, procs, daemon, pipe, stdoutClosed, pidfile, emitted,
                   sleeps>>

\* svc_pid = service.start(fork=True): the new instance is stopped, so the
\* guard of start passes
CbCallStart ==
    /\ cb.pc = "start"
    /\ Launch
    /\ cb' = [cb EXCEPT !.pc = "in_start"]
    /\ UNCHANGED <<configfile, ldapOps>>

\* start has ended.  An exception leaves create_basic at once: the call is
\* in front of the try.  The value start returns is None, never 0, so
\* sys.exit() is not reached.  The try block begins, for the dbtype that
\* create_basic was called with.
CbAfterStart(dbtype) ==
    /\ cb.pc = "in_start"
    /\ pc = "idle"
    /\ cb' = IF result.outcome = "ok"
             THEN [cb EXCEPT !.pc = "boot", !.step = 1, !.dbtype = dbtype]
             ELSE Raised(cb, result.outcome)
    /\ UNCHANGED <<configfile, ldapOps>>
    /\ UNCHANGED instanceVars

\* the statements of the try block, in order, for a suffix and a database
\* type: the session as cn=config, then (for a suffix of more than one RDN)
\* the session as root_dn with one loop iteration per organizational unit
DbTypes == {"hdb", "bdb"}
Op(who, op, dn) == [who |-> who, op |-> op, dn |-> dn]
ConfigDn == <<Rdn("cn", "config")>>
BootOps(sfx, dbtype) ==
    <<Op("config", "bind", ConfigDn),
      Op("config", "modify", ConfigDn),
      Op("config", "add", <<Rdn("cn", "Module{0}")>> \o ConfigDn),
      Op("config", "add", <<Rdn("olcDatabase", dbtype)>> \o ConfigDn),
      Op("config", "modify", <<Rdn("olcDatabase", "{1}hdb")>> \o ConfigDn),
      Op("config", "unbind", << >>)>>
    \o IF Len(sfx) > 1
       THEN <<Op("root", "bind", << >>),
              Op("root", "add", SuffixOrgDn(sfx))>>
            \o [i \in 1..Len(SuffixOrgunitsRdns(sfx)) |->
                  Op("root", "join", <<SuffixOrgunitsRdns(sfx)[i]>>)]
            \o <<Op("root", "unbind", << >>)>>
       ELSE << >>

\* the name slapd gives the first database added under cn=config ({0} is
\* the config database itself)
DbEntryName(dbtype) == IF dbtype = "hdb" THEN "{1}hdb" ELSE "{1}bdb"

\* the entries under cn=config that a modify can name once the operations
\* done so far have been applied: cn=config, and the database entry under
\* its numbered name when it was added
Modifiable(done) ==
    {ConfigDn}
    \cup {<<Rdn("olcDatabase", DbEntryName(done[i].dn[1].val))>> \o ConfigDn :
            i \in {j \in 1..Len(done) : /\ done[j].op = "add"
                                        /\ done[j].dn[1].attr = "olcDatabase"}}

\* the try block is left for the finally clause
AfterBoot(c) == [c EXCEPT !.pc = "finally", !.step = 0]

\* a directory operation of the try block succeeds: the daemon answered,
\* and a modify named an entry that exists
CbBootOk ==
    /\ cb.pc = "boot"
    /\ LET ops == BootOps(cb.suffix, cb.dbtype)
       IN  /\ ops[cb.step].op # "join"
           /\ daemon # NoPid
           /\ procs[daemon].state = "alive"
           /\ ops[cb.step].op = "modify" => ops[cb.step].dn \in Modifiable(ldapOps)
           /\ ldapOps' = Append(ldapOps, ops[cb.step])
           /\ cb' = IF cb.step = Len(ops) THEN AfterBoot(cb)
                    ELSE [cb EXCEPT !.step = cb.step + 1]
    /\ UNCHANGED configfile
    /\ UNCHANGED instanceVars

\* a directory operation of the try block raises (server down, refused, ...)
CbBootFail ==
    /\ cb.pc = "boot"
    /\ BootOps(cb.suffix, cb.dbtype)[cb.step].op # "join"
    /\ cb' = [AfterBoot(cb) EXCEPT !.boot = "LDAPError"]
    /\ UNCHANGED <<configfile, ldapOps>>
    /\ UNCHANGED instanceVars

\* an iteration of the loop over suffix_orgunits_rdns: its first statement,
\* ','.join(orgunit_rdn, orgunit_dn), calls str.join with two arguments and
\* raises TypeError; the add_s behind it is never reached
CbUnit ==
    /\ cb.pc = "boot"
    /\ BootOps(cb.suffix, cb.dbtype)[cb.step].op = "join"
    /\ cb' = [AfterBoot(cb) EXCEPT !.boot = "TypeError"]
    /\ UNCHANGED <<configfile, ldapOps>>
    /\ UNCHANGED instanceVars

\* create_basic is left: the pending exception of the try block goes on, or
\* the instance is returned
Exit(c) ==
    IF c.boot # "none" THEN [c EXCEPT !.pc = "raised", !.err = c.boot,
                                      !.at = "boot"]
    ELSE [c EXCEPT !.pc = "returned"]

\* a finally clause that stops nothing
FinallyStopsNever(st) == FALSE

\* the test of the finally clause on the status it read
FinallyStops(st) == st = "running"

\* finally: the test service.status == ServiceStatus('running'); an
\* exception raised in the finally clause takes the place of a pending one
CbFinally ==
    /\ cb.pc = "finally"
    /\ ReadStatus
    /\ LET s == ProbeStatus(status, pid, procs)
       IN  cb' = IF s.raised # "none" THEN Raised(cb, s.raised)
                 ELSE IF FinallyStops(s.status)
                 THEN [cb EXCEPT !.pc = "call_stop"]
                 ELSE Exit(cb)
    /\ UNCHANGED <<configfile, ldapOps>>

\* finally: service.stop()
CbCallStop ==
    /\ cb.pc = "call_stop"
    /\ pc = "idle"
    /\ StopEnter(Ended("stop", "pending"))
    /\ cb' = [cb EXCEPT !.pc = "in_stop"]
    /\ UNCHANGED <<configfile, ldapOps>>

\* stop has ended: its exception leaves create_basic, in the place of a
\* pending one
CbAfterStop ==
    /\ cb.pc = "in_stop"
    /\ pc = "idle"
    /\ cb' = IF result.outcome = "ok" THEN Exit(cb)
             ELSE Raised(cb, result.outcome)
    /\ UNCHANGED <<configfile, ldapOps>>
    /\ UNCHANGED instanceVars

\* a call of create_basic, from its first statement
CbInit ==
    /\ New(FALSE)
    /\ pidfilepath = FALSE
    /\ cb \in {[NoCb EXCEPT !.pc = "entry", !.suffix = s] : s \in Suffixes}
    /\ configfile = NoFile
    /\ ldapOps = << >>

CreateBasicStep ==
    \/ \E pw \in Passwords, salt \in Salts : CbValidate(pw, salt)
    \/ \E loc \in ConfigLocs, schemas \in SchemaLists, arg \in PidfileArgs,
          stdWritable \in BOOLEAN, pw \in Passwords, salt \in Salts :
          CbMinimal(loc, schemas, arg, stdWritable, pw, salt)
    \/ \E code \in {0} \cup ExitCodes, out \in SlaptestOutputs :
          CbSlaptest(code, out)
    \/ CbCallStart
    \/ \E dbtype \in DbTypes : CbAfterStart(dbtype)
    \/ CbBootOk
    \/ CbBootFail
    \/ CbUnit
    \/ CbFinally
    \/ CbCallStop
    \/ CbAfterStop

\* the steps of start and stop that run inside create_basic
CbSupervisorStep ==
    \/ StartPoll
    \/ StartFailRead
    \/ StartPeriodElapsed
    \/ StartReadlineCall
    \/ StartReadline
    \/ StartSleep
    \/ StartResolve
    \/ StopKill
    \/ StopPoll
    \/ StopWait

CbNext == CreateBasicStep \/ CbSupervisorStep \/ Environment

CbSpec == CbInit /\ [][CbNext]_vars

\* ----------------------------------------------------------- the claims
\* the spec's names for the exceptions the code raises
InvalidOperation == "InvalidServiceOperation"
StartupFailed == "RuntimeError"

\* a step that is a call of start()
StartCallStep == StartProbeError \/ StartRejected \/ StartLaunch \/ StartExec

\* the last call was a start(fork=True) that returned normally
StartReturned == pc = "idle" /\ result.op = "start" /\ result.outcome = "ok"

\* C1: right after start(fork=True) has returned normally, and while the
\* process whose pid it recorded has not exited, a status read yields running
\* and pid is a positive integer.
C1_RunningAfterStart ==
    (StartReturned /\ procs[result.resolved].state = "alive")
    => LET r == ProbeStatus(status, pid, procs)
       IN  /\ r.raised = "none"
           /\ r.status = "running"
           /\ r.pid = result.resolved
           /\ r.pid \in Nat \ {0}

C1_Witness ==
    /\ StartReturned
    /\ procs[result.resolved].state = "alive"
    /\ status = "running"
    /\ pid = slapd_proc.pid

\* C2: a start call on an instance recorded as running whose daemon is alive
\* raises InvalidOperation, launches nothing and leaves status and pid as
\* they were.
C2_SecondStartRejected ==
    [][(StartCallStep /\ status = "running" /\ procs[pid].state = "alive")
       => /\ result'.outcome = InvalidOperation
          /\ pc' = "idle"
          /\ procs' = procs
          /\ slapd_proc' = slapd_proc
          /\ status' = "running"
          /\ pid' = pid]_vars

C2_Witness ==
    /\ pc = "idle"
    /\ result.op = "start"
    /\ result.outcome = InvalidOperation
    /\ status = "running"
    /\ slapd_proc # NoProc
    /\ pid = slapd_proc.pid
    /\ procs[pid].state = "alive"

\* C3: a stop call while status is stopped raises InvalidOperation, sends no
\* signal and leaves status stopped and pid unset.
C3_StopWhenStopped ==
    [][(StopCall /\ status = "stopped")
       => /\ result'.outcome = InvalidOperation
          /\ result'.signal = NoPid
          /\ pc' = "idle"
          /\ procs' = procs
          /\ status' = "stopped"
          /\ pid' = NoPid]_vars

C3_Witness ==
    /\ pc = "idle"
    /\ result.op = "stop"
    /\ result.outcome = InvalidOperation
    /\ result.signal = NoPid
    /\ status = "stopped"
    /\ pid = NoPid

\* the recorded pid was killed out-of-band: gone, or left as a zombie
KilledOutOfBand ==
    status = "running" /\ procs[pid].state \in {"zombie", "dead"}

\* C4: when the recorded pid of a running instance no longer exists or exists
\* only as a zombie, the next status read returns gone, and a stop call on
\* the gone instance raises InvalidOperation without sending a signal.
C4_KilledReadsGone ==
    [][/\ (StatusRead /\ KilledOutOfBand)
          => (result'.outcome = "ok" /\ result'.read = "gone" /\ status' = "gone")
       /\ (StopCall /\ (KilledOutOfBand \/ status = "gone"))
          => (result'.outcome = InvalidOperation /\ result'.signal = NoPid
              /\ pc' = "idle")]_vars

\* C5 (as stated): once status is gone it stays gone, and every later start
\* and stop raises InvalidOperation and launches nothing.
C5_GoneIsTerminal ==
    [][status = "gone"
       => /\ status' = "gone"
          /\ StartCallStep => (result'.outcome = InvalidOperation /\ procs' = procs)
          /\ StopCall => result'.outcome = InvalidOperation]_vars

\* C5 (amended): once status is gone, every stop raises InvalidOperation
\* without a signal, status reads keep returning gone and pid stays unset;
\* start is not refused, and status leaves gone only when such a start
\* completes and records running.
C5_GoneUntilRestart ==
    [][status = "gone"
       => /\ pid = NoPid
          /\ status' = "gone" \/ (StartResolve /\ status' = "running")
          /\ StopCall => /\ result'.outcome = InvalidOperation
                         /\ result'.signal = NoPid
                         /\ pc' = "idle"
                         /\ procs' = procs
          /\ StatusRead => (result'.read = "gone" /\ procs' = procs)
          /\ StartCallStep => result'.outcome \in {"pending", "exec"}]_vars

C5_Witness ==
    /\ StartReturned
    /\ result.entry = "gone"
    /\ status = "running"

\* C6: once stop has delivered the termination signal to the child this
\* instance launched, it returns normally with status stopped and pid unset,
\* and the signalled process no longer exists.
C6_StopReaps ==
    (pc = "idle" /\ result.op = "stop" /\ result.signal # NoPid
       /\ result.signal = slapd_proc.pid)
    => /\ result.outcome = "ok"
       /\ status = "stopped"
       /\ pid = NoPid
       /\ procs[result.signal].state = "dead"

\* C7: a forked start changes status and pid only in its last step, which is
\* reached only after the marker was read, the stdout handle closed and one
\* full poll period slept; start returns only from that step or by raising
\* StartupFailed.
C7_RunningOnlyAfterReadiness ==
    /\ [](pc = "start_resolve"
          => /\ slapd_started
             /\ \E i \in 1..Len(slapd_output) : HasMarker(slapd_output[i])
             /\ stdoutClosed
             /\ sleeps = 1)
    /\ [][InStart
          => /\ (status' # status \/ pid' # pid) => pc = "start_resolve"
             /\ pc' = "idle" => (pc = "start_resolve"
                                 \/ result'.outcome = StartupFailed)]_vars

C7_Witness ==
    /\ pc = "start_resolve"
    /\ sleeps = 1
    /\ stdoutClosed
    /\ Len(slapd_output) = MaxOut

\* the last call was a start(fork=True) that raised StartupFailed
StartFailed == pc = "idle" /\ result.op = "start" /\ result.outcome = StartupFailed

\* C8 (as stated): a start that fails because the daemon exited before the
\* marker carries the exit code and all output, and leaves status stopped
\* and pid unset.
C8_FailedStartLeavesStopped ==
    StartFailed
    => /\ result.code = procs[slapd_proc.pid].code
       /\ result.output = emitted
       /\ status = "stopped"
       /\ pid = NoPid

\* C8 (amended): when a poll of the readiness loop finds the launched child
\* exited before the marker was read, start raises StartupFailed carrying the
\* child's exit code and every line the daemon printed; the instance keeps
\* the status the call found (stopped or gone) and pid stays unset.
C8_FailedStartKeepsStatus ==
    /\ [](StartFailed
          => /\ result.code = procs[slapd_proc.pid].code
             /\ result.code # NoCode
             /\ result.output = emitted
             /\ status = result.entry
             /\ status \in {"stopped", "gone"}
             /\ pid = NoPid)
    /\ [][/\ (StartPoll /\ procs[slapd_proc.pid].state = "zombie")
             => pc' = "start_fail_read"
          /\ pc = "start_fail_read"
             => (pc' = "start_fail_read" \/ result'.outcome = StartupFailed)]_vars

C8_Witness ==
    /\ StartFailed
    /\ result.entry = "gone"
    /\ Len(result.output) = MaxOut
    /\ status = "gone"

\* C10: start(fork=True) hands the daemon's pid back: the value returned is
\* the pid recorded on the instance.
C10_StartReturnsPid ==
    (StartReturned /\ status = "running") => result.value = pid

\* the daemon of the running start is alive and its marker was not read
DaemonPending == InStart /\ ~slapd_started /\ procs[daemon].state = "alive"

\* C9 (as stated, for a daemon that stays the launched child): a
\* start(fork=True) that has begun always comes to an end, also when the
\* daemon neither prints the marker nor exits.
C9_StartTerminates ==
    (InStart /\ daemon = slapd_proc.pid)
        ~> (pc = "idle" \/ daemon # slapd_proc.pid)

\* C9 (amended): a start(fork=True) comes to an end unless from some moment
\* on the daemon stays alive without its marker having been read; the loop
\* has no bound of its own.
C9_StartEndsUnlessDaemonPending ==
    []<>(~InStart) \/ <>[]DaemonPending

C9_Witness ==
    /\ pc = "start_readline"
    /\ pipe = << >>
    /\ Len(emitted) = MaxOut
    /\ DaemonPending

\* the process behind the recorded pid is no longer in the process table
Vanished == pid \in PIDs /\ procs[pid].state \notin {"alive", "zombie"}

\* C11: when stop's guard saw the service running and the process is gone by
\* the time os.kill runs, the signal fails with "no such process": stop sets
\* status gone (never stopped), clears the pid, signals nothing and raises
\* InvalidOperation.
C11_VanishedBeforeSignal ==
    [][(pc = "stop_kill" /\ result.op = "stop" /\ Vanished /\ pc' # pc)
       => /\ status' = "gone"
          /\ pid' = NoPid
          /\ result'.outcome = InvalidOperation
          /\ result'.signal = NoPid
          /\ pc' = "idle"
          /\ procs' = procs]_vars

C11_Witness ==
    /\ pc = "idle"
    /\ result.op = "stop"
    /\ result.entry = "running"
    /\ result.signal = NoPid
    /\ result.outcome = InvalidOperation
    /\ status = "gone"

\* C12: a status read changes the instance in one way only: when the recorded
\* status is running and the pid no longer exists, or exists as a zombie
\* (which the read reaps), status becomes gone and the pid is cleared; in
\* every other case status, pid and the process table are left alone, and no
\* read moves gone or stopped to running.
C12_StatusReadFrame ==
    [][StatusRead
       => /\ IF KilledOutOfBand
             THEN /\ status' = "gone"
                  /\ pid' = NoPid
                  /\ procs'[pid].state = "dead"
                  /\ result'.read = "gone"
             ELSE /\ status' = status
                  /\ pid' = pid
                  /\ procs' = procs
                  /\ result'.read = status
          /\ status \in {"gone", "stopped"} => status' = status]_vars

\* C13: in every reachable state (after construction and any sequence of
\* start, stop, status reads and teardown, at every step of them) the pid is
\* set exactly when the recorded status is running; stopped and gone, the
\* probe's downgrade included, go with an unset pid.
C13_PidIffRunning == (pid # NoPid) <=> (status = "running")

\* the probe of a status read downgraded a daemon this instance launched
C13_Witness ==
    /\ result.op = "status"
    /\ result.read = "gone"
    /\ slapd_proc.pid # NoPid
    /\ status = "gone"
    /\ pid = NoPid

CbLeftAfterBoot ==
    cb.pc \in {"returned", "raised"} /\ (cb.boot # "none" \/ ldapOps # << >>)

\* C14 (as stated, for a daemon that is the process start launched): on every
\* exit path of create_basic that follows the daemon's start (normal return,
\* or a failure raised during the bootstrap as cn=config or as root_dn), the
\* daemon it launched is no longer running when control leaves create_basic,
\* and an instance that is returned has status stopped.
C14_DaemonStoppedOnExit ==
    (CbLeftAfterBoot /\ daemon = slapd_proc.pid)
    => /\ procs[daemon].state # "alive"
       /\ cb.pc = "returned" => (status = "stopped" /\ pid = NoPid)

\* C14 (amended): on every such exit path the finally clause has read the
\* status and called stop when it read running.  A daemon that is the process
\* start launched (it did not detach) is no longer running when control
\* leaves; a stop that returned has reaped it and recorded stopped; and an
\* instance that is returned is never running: it is stopped, or gone when
\* the daemon had died by itself before the cleanup.
C14_StoppedOrGoneOnExit ==
    CbLeftAfterBoot
    => /\ daemon = slapd_proc.pid => procs[daemon].state # "alive"
       /\ (result.op = "stop" /\ result.outcome = "ok")
          => (status = "stopped" /\ procs[result.signal].state = "dead")
       /\ cb.pc = "returned" => (status \in {"stopped", "gone"} /\ pid = NoPid)
       /\ (cb.pc = "returned" /\ status = "gone") => result.op = "status"

\* a bootstrap step failed, the cleanup stop ran and reaped the daemon, and
\* the step's error went on
C14_Witness ==
    /\ cb.pc = "raised"
    /\ cb.boot = "LDAPError"
    /\ cb.err = "LDAPError"
    /\ result.op = "stop"
    /\ result.outcome = "ok"
    /\ status = "stopped"
    /\ procs[daemon].state = "dead"

\* C15: when a step of the bootstrap failed and the cleanup stop of the
\* finally clause failed too, the error create_basic propagates is that
\* step's error, not the error of the stop.
C15_OriginalErrorPropagates ==
    (cb.pc = "raised" /\ cb.boot # "none"
       /\ result.op = "stop" /\ result.outcome # "ok")
    => cb.err = cb.boot

\* the DNs of the entries added in the session as root_dn, in order
RootAdds == LET adds == SelectSeq(ldapOps, LAMBDA o : o.who = "root" /\ o.op = "add")
            IN  [i \in 1..Len(adds) |-> adds[i].dn]

\* dc=<org>,dc=<tld>, then ou_1,dc=<org>,dc=<tld>, ... up to the full suffix
AccumulatedDns(s) == [i \in 1..(Len(s) - 1) |-> SubSeq(s, Len(s) - i, Len(s))]

\* C17: for a suffix ou_k,...,ou_1,dc=<org>,dc=<tld> with k >= 1, when no
\* directory operation fails, create_basic leaves the try block without an
\* error, having added the organization entry and then one entry per unit
\* RDN, outermost first, each at its own accumulated DN.
C17_UnitsCreatedInOrder ==
    (cb.pc \in {"finally", "call_stop", "in_stop", "returned", "raised"}
       /\ Len(cb.suffix) > 2 /\ RootAdds # << >> /\ cb.boot # "LDAPError")
    => /\ cb.boot = "none"
       /\ RootAdds = AccumulatedDns(cb.suffix)

\* the suffixes the claim speaks of: the last two RDNs are not dc=..,dc=..,
\* a suffix of a single RDN included
NotOrgSuffix(s) == Len(s) < 2 \/ ~SuffixOrgDnMatch(SuffixOrgDn(s))

\* nothing of create_minimal, slaptest or the daemon has happened
NothingDone ==
    /\ ~cb.written
    /\ ~configfile.exists
    /\ ~cb.checked
    /\ ~cb.instance
    /\ daemon = NoPid
    /\ \A p \in PIDs : procs[p].state = "unused"

\* C18 (as stated): for every suffix that does not end in dc=<org>,dc=<tld>,
\* a single RDN such as dc=example included, create_basic raises the
\* invalid-suffix ValueError before a config file is written, slaptest is run
\* or a daemon is launched.
C18_InvalidSuffixFailsFirst ==
    NotOrgSuffix(cb.suffix)
    => /\ cb.pc \in {"entry", "raised"}
       /\ cb.pc = "raised" => (cb.err = "ValueError" /\ cb.at = "entry")
       /\ NothingDone

\* C18 (amended): a suffix of two or more RDNs whose last two are not
\* dc=<org>,dc=<tld> is refused with ValueError before anything is written,
\* checked or launched; a suffix of a single RDN is not validated:
\* create_basic is not left at the validation, and opens no session as
\* root_dn, so it adds no suffix entry.
C18_LongInvalidSuffixFailsFirst ==
    /\ (Len(cb.suffix) > 1 /\ NotOrgSuffix(cb.suffix))
       => /\ cb.pc \in {"entry", "raised"}
          /\ cb.pc = "raised" => (cb.err = "ValueError" /\ cb.at = "entry")
          /\ NothingDone
    /\ Len(cb.suffix) = 1
       => /\ cb.at # "entry"
          /\ \A i \in 1..Len(ldapOps) : ldapOps[i].who # "root"

\* a suffix of three RDNs was refused
C18_Witness ==
    /\ cb.pc = "raised"
    /\ cb.at = "entry"
    /\ cb.err = "ValueError"
    /\ Len(cb.suffix) = 3

\* the spec's name for the error of a rejected configuration
InvalidConfig == "RuntimeError"

\* the text behind the indentation of every line
Unindented(text) == [i \in 1..Len(text) |-> text[i][2]]

\* C19: when slaptest exits non-zero, create_from_configfile raises
\* InvalidConfig carrying the exit code and the tool's combined output, no
\* instance is returned and no daemon is launched.
C19_RejectedConfigRaises ==
    (cb.checked /\ cb.tool.code # 0)
    => /\ cb.pc = "raised"
       /\ cb.at = "slaptest"
       /\ cb.err = InvalidConfig
       /\ cb.code = cb.tool.code
       /\ Unindented(cb.output) = cb.tool.out
       /\ ~cb.instance
       /\ daemon = NoPid
       /\ \A p \in PIDs : procs[p].state = "unused"

C19_Witness ==
    /\ cb.pc = "raised"
    /\ cb.at = "slaptest"
    /\ cb.tool.code \in ExitCodes
    /\ Len(cb.output) = 2

\* C20: the configuration file create_minimal writes for a schema list of
\* length n and a pid-file path p is n include lines, one per schema in the
\* given order, then one "pidfile p" line, one "database config" line and
\* one "rootpw <value>" line, and nothing else.
C20_RenderedConfig ==
    configfile.exists
    => LET n == Len(cb.schemas)
           t == configfile.text
       IN  /\ Len(t) = n + 3
           /\ \A i \in 1..n : t[i] = Line("include", <<cb.schemas[i]>>)
           /\ t[n + 1] = Line("pidfile", cb.pidfile)
           /\ t[n + 2] = Line("database", <<"config">>)
           /\ t[n + 3] = Line("rootpw", cb.configpw)
           /\ cb.pidfile # << >>
           /\ cb.configpw[1] \in SchemeTokens

\* two different schema files, in an order that matters
C20_Witness ==
    /\ configfile.exists
    /\ Len(cb.schemas) = 2
    /\ cb.schemas[1] # cb.schemas[2]
    /\ cb.pidfile = <<"/tmp/x.pid">>

\* the rule as the spec states it: a credential with a {scheme} prefix is
\* rendered unchanged, any other as a value that begins with {SSHA}
RenderedByRule(arg, value) ==
    IF PasswordWithScheme(arg) THEN value = arg
    ELSE value # arg /\ value[1] = "{SSHA}"

\* C21: the config-database root credential (create_minimal) and the
\* directory root credential (create_basic) are rendered by one rule: as
\* given when the credential begins with a {scheme} prefix, else as a value
\* beginning with {SSHA}; two credentials of the same class are treated alike.
C21_OneCredentialRule ==
    /\ cb.rootpw # << >> => RenderedByRule(cb.rootarg, cb.rootpw)
    /\ cb.configpw # << >> => RenderedByRule(cb.configarg, cb.configpw)
    /\ (cb.rootpw # << >> /\ cb.configpw # << >>
         /\ PasswordWithScheme(cb.rootarg) = PasswordWithScheme(cb.configarg))
       => ((cb.rootpw = cb.rootarg) <=> (cb.configpw = cb.configarg))

\* both credentials rendered: the root one hashed, the config one as given
C21_Witness ==
    /\ cb.pc = "slaptest"
    /\ cb.rootpw[1] = "{SSHA}"
    /\ cb.rootarg = <<"{}", "secret">>
    /\ cb.configpw = <<"{MD5}", "c2VjcmV0">>
    /\ cb.configarg = cb.configpw

\* C22: start never launches a daemon while the daemon of an earlier launch
\* of the same instance (here: one that is still the launched child) is
\* alive, so at most one daemon of the instance is alive at any moment.
C22_OneDaemonAtATime ==
    [][(pc = "idle" /\ pc' = "start_poll" /\ daemon # NoPid
          /\ daemon = slapd_proc.pid)
       => procs[daemon].state # "alive"]_vars

\* C23: an instance that was cleanly stopped can be started and stopped
\* again: after a stop that returned normally, a later start that returns has
\* recorded the launched daemon as running, and a later stop that signalled
\* that daemon returns normally with status stopped.
C23_RestartSucceeds ==
    (pc = "idle" /\ result.stops >= 1 /\ daemon = slapd_proc.pid)
    => /\ (result.op = "start" /\ result.outcome = "ok"
             /\ result.resolved = daemon /\ procs[daemon].state = "alive")
          => (status = "running" /\ pid = daemon)
       /\ (result.op = "stop" /\ result.signal = daemon)
          => (result.outcome = "ok" /\ status = "stopped" /\ pid = NoPid)

\* C24: a stop of a running instance whose recorded pid is not the launched
\* child (an attached pid, or a pid read from the pid-file that differs from
\* the child's) that has delivered its signal ends stopped with the pid
\* unset, without raising
C24_NonChildStop ==
    (pc = "idle" /\ result.op = "stop" /\ result.signal # NoPid
       /\ result.signal # slapd_proc.pid)
    => (result.outcome = "ok" /\ status = "stopped" /\ pid = NoPid)

\* C25: the last step of a stop whose signal went to the launched child, the
\* blocking wait that follows the poll, always returns normally with status
\* stopped, whenever the daemon exited relative to the poll
C25_StopRaceFree ==
    [][(pc = "stop_wait" /\ result.op = "stop" /\ result.signal = slapd_proc.pid
          /\ pc' = "idle")
       => (result'.outcome = "ok" /\ status' = "stopped")]_vars

\* the pid the claim of C26 expects _start to use
ExpectedPid ==
    IF pidfilepath THEN IntOf(Strip(pidfile.text)) ELSE slapd_proc.pid

\* C26: a forked start resolves the pid only after the readiness marker was
\* seen, and the pid it hands to _set_status, which is the recorded pid
\* whenever the start leaves the instance running, is the pid-file's content
\* when the config directory names a pid-file and the launched child's pid
\* otherwise
C26_RecordedPidSource ==
    [][(pc = "start_resolve" /\ pc' = "idle")
       => /\ slapd_started
          /\ result'.outcome \notin {"IOError", "ValueError"}
             => /\ result'.resolved = ExpectedPid
                /\ status' = "running" => pid' = ExpectedPid]_vars

\* C26 witness: a start has returned on an instance whose config names a
\* pid-file, and the recorded pid is the pid-file's, not the child's
C26_Witness ==
    /\ pc = "idle" /\ result.op = "start" /\ result.outcome = "ok"
    /\ pidfilepath /\ status = "running"
    /\ pid = IntOf(Strip(pidfile.text))
    /\ pid # slapd_proc.pid

\* C27: once slaptest has run and config creation has finished, the
\* temporary configuration file no longer exists, whether slaptest accepted
\* the file or rejected it
C27_ConfigFileRemoved ==
    (cb.checked /\ cb.pc # "slaptest") => ~configfile.exists

\* the protocol the claim of C28 describes, for a suffix and a database
\* type: the config session ending with the rules set on the database entry
\* that was just created, then the root session with the organization entry
\* and one entry per unit
ProtocolOps(sfx, dbtype) ==
    <<Op("config", "bind", ConfigDn),
      Op("config", "modify", ConfigDn),
      Op("config", "add", <<Rdn("cn", "Module{0}")>> \o ConfigDn),
      Op("config", "add", <<Rdn("olcDatabase", dbtype)>> \o ConfigDn),
      Op("config", "modify", <<Rdn("olcDatabase", DbEntryName(dbtype))>> \o ConfigDn),
      Op("config", "unbind", << >>)>>
    \o IF Len(sfx) > 1
       THEN <<Op("root", "bind", << >>)>>
            \o [i \in 1..(Len(sfx) - 1) |-> Op("root", "add", AccumulatedDns(sfx)[i])]
            \o <<Op("root", "unbind", << >>)>>
       ELSE << >>

\* the started daemon of create_basic is up and not yet told to stop
BetweenStartAndStop ==
    /\ cb.pc = "boot" /\ pc = "idle"
    /\ result.op = "start" /\ result.outcome = "ok"

\* C28: the directory operation create_basic issues next is the one the
\* protocol has at that place (config session first, its rules set on the
\* database entry just created, the root session only behind the config
\* unbind), and directory operations are done only between the daemon's
\* start and its stop
C28_BootstrapProtocol ==
    [][/\ cb.pc = "boot"
          => BootOps(cb.suffix, cb.dbtype)[cb.step]
               = ProtocolOps(cb.suffix, cb.dbtype)[cb.step]
       /\ ldapOps' # ldapOps => BetweenStartAndStop]_vars

====
